---- MODULE Spec2Model ----
(***************************************************************************)
(* Model of the canoe-club inventory/bookings API (src/backend/app.py,     *)
(* src/backend/models.py).  The state is the three tables of the database  *)
(* (user, inventory, booking) with their id sequences, and the request     *)
(* most recently handled together with the response it got.  Every route   *)
(* handler is one action: its dependencies (get_current_user), its checks  *)
(* and its commit happen in the single step of the request.  A second      *)
(* specification, ConcSpec, runs POST /register and POST /bookings on the  *)
(* worker threads of the server, each request with a database session of   *)
(* its own (src/backend/database.py), its query and its commit being       *)
(* separate steps; sessions holds the requests that are past their query.  *)
(***************************************************************************)
EXTENDS Integers, FiniteSets, Sequences, TLC

VARIABLES users, next_user_id, inventory, next_item_id,
          bookings, next_booking_id, resp, sessions

vars == <<users, next_user_id, inventory, next_item_id,
          bookings, next_booking_id, resp, sessions>>

---------------------------------------------------------------------------
(* Bounds of the model *)

\* Largest id the user table's sequence hands out; also the largest user_id
\* a request body names.
MaxUserId == 2

\* Largest id the inventory table's sequence hands out; also the largest
\* item_id a request body or path names.
MaxItemId == 2

\* Largest id the booking table's sequence hands out.
MaxBookingId == 2

\* Timestamps are 0..MaxTime.
MaxTime == 1

\* Worker threads that handle requests at the same time (ConcSpec).
MaxWorkers == 2

---------------------------------------------------------------------------
(* Request inputs *)

Usernames == {"johndoe", "janedoe"}

\* payload.get("sub") of a token that carries no subject
NoSub == "<none>"

\* The credential of a request: no Authorization header, a token jwt.decode
\* rejects, or a token jwt.decode accepts, with the subject of its payload.
Tokens ==
    {[kind |-> "none", sub |-> NoSub], [kind |-> "invalid", sub |-> NoSub]}
    \cup {[kind |-> "valid", sub |-> s] : s \in Usernames \cup {NoSub}}

Times == 0..MaxTime

\* BookingCreate: four required fields, none validated against the tables.
BookingBodies ==
    [user_id : 1..MaxUserId, item_id : 1..MaxItemId,
     start_time : Times, end_time : Times]

NoBooking == [user_id |-> 0, item_id |-> 0, start_time |-> 0, end_time |-> 0]

\* InventoryCreate: reference, category, size.
ItemBodies ==
    [reference : {"Test Ref"}, category : {"craft"}, size : {"L", "M"}]

NoItem == [reference |-> "", category |-> "", size |-> ""]

\* UserCreate: username, email, password (email and password are not read
\* by any check modelled here).
UserBodies == [username : Usernames, email : {"mail"}, password : {"pass"}]

NoUserBody == [username |-> NoSub, email |-> "", password |-> ""]

\* The threads of the server's pool: each runs one request at a time, with
\* the Session get_session opens for it.
Workers == 1..MaxWorkers

\* What a worker's session holds between the query of its request and its
\* commit: the handler it is in and the body it will persist.
Request(op, booking, user) == [op |-> op, booking |-> booking, user |-> user]

\* A worker that handles no request
NoRequest == Request("idle", NoBooking, NoUserBody)

---------------------------------------------------------------------------
(* Rows *)

\* User(UserBase, table=True): id, username, email, hashed_password.  The
\* table has no is_admin column.
User(id, username, email, hashed_password) ==
    [id |-> id, username |-> username, email |-> email,
     hashed_password |-> hashed_password]

\* The result None of a query for a user
NoUser == User(0, NoSub, "", "")

\* Booking(BookingBase, table=True): the body's fields and the id.
Booking(id, body) ==
    [id |-> id, user_id |-> body.user_id, item_id |-> body.item_id,
     start_time |-> body.start_time, end_time |-> body.end_time]

\* Inventory(InventoryBase, table=True)
Inventory(id, body) ==
    [id |-> id, reference |-> body.reference, category |-> body.category,
     size |-> body.size]

\* The fields of a persisted booking that a BookingCreate body carries
BodyOf(b) ==
    [user_id |-> b.user_id, item_id |-> b.item_id,
     start_time |-> b.start_time, end_time |-> b.end_time]

\* session.get(Booking, id): the rows with that primary key (none or one)
GetBooking(bks, id) == {b \in bks : b.id = id}

\* session.get(Inventory, id)
GetItem(inv, id) == {i \in inv : i.id = id}

---------------------------------------------------------------------------
(* Authentication and the admin check *)

get_password_hash(password) == <<"hash", password>>

get_user_by_username(usrs, username) ==
    IF \E u \in usrs : u.username = username
    THEN CHOOSE u \in usrs : u.username = username
    ELSE NoUser

\* Mutant: the "if user is None: raise" left out, so that a token naming no
\* stored user hands the handler None.
get_current_user_unchecked(token, usrs) ==
    IF token.kind = "none" THEN [status |-> 401, user |-> NoUser]
    ELSE IF token.kind = "invalid" THEN [status |-> 401, user |-> NoUser]
    ELSE IF token.sub = NoSub THEN [status |-> 401, user |-> NoUser]
    ELSE [status |-> 200, user |-> get_user_by_username(usrs, token.sub)]

\* The dependency of every gated route: the stored user the token names, or
\* the 401 credentials_exception.
get_current_user(token, usrs) ==
    IF token.kind = "none" THEN [status |-> 401, user |-> NoUser]
    ELSE IF token.kind = "invalid" THEN [status |-> 401, user |-> NoUser]
    ELSE IF token.sub = NoSub THEN [status |-> 401, user |-> NoUser]
    ELSE LET user == get_user_by_username(usrs, token.sub) IN
         IF user = NoUser THEN [status |-> 401, user |-> NoUser]
         ELSE [status |-> 200, user |-> user]

\* Mutant: a missing attribute read with a default of True, as
\* getattr(user, "is_admin", True) would.
is_admin_fail_open(user) ==
    IF "is_admin" \notin DOMAIN user THEN "True"
    ELSE IF user["is_admin"] # TRUE THEN "HTTP401"
    ELSE "True"

\* is_admin(user): reads user.is_admin.  A row without that attribute makes
\* the read raise AttributeError (an unhandled exception: a 500 response); a
\* value that is falsy or not a bool raises the 401 "Admin only"; otherwise
\* the function returns True.
is_admin(user) ==
    IF "is_admin" \notin DOMAIN user THEN "AttributeError"
    ELSE IF user["is_admin"] # TRUE THEN "HTTP401"
    ELSE "True"

\* The status an admin-only route leaves its is_admin(current_user) call with
AdminGate(user) ==
    CASE is_admin(user) = "AttributeError" -> 500
      [] is_admin(user) = "HTTP401" -> 401
      [] OTHER -> 200

\* if db_booking.user_id != current_user.id and not is_admin(current_user):
\*     raise HTTPException(401)
\* The and short-circuits for the owner; for anyone else is_admin either
\* raises or returns True, so the 401 of the if body is never raised.
OwnerOrAdminGate(db_booking, current_user) ==
    IF db_booking.user_id = current_user.id THEN 200
    ELSE AdminGate(current_user)

---------------------------------------------------------------------------
(* Booking logic *)

\* Mutant: the two comparisons strict, so that intervals sharing only an end
\* point do not count.
OverlappingStrict(bks, item_id, start, end) ==
    {b \in bks : /\ b.item_id = item_id
                 /\ b.start_time < end
                 /\ b.end_time > start}

\* Mutant: the item_id filter of the query left out.
OverlappingAnyItem(bks, item_id, start, end) ==
    {b \in bks : /\ b.start_time <= end
                 /\ b.end_time >= start}

\* .where(Booking.item_id == item_id).where(Booking.start_time <= end)
\* .where(Booking.end_time >= start)
Overlapping(bks, item_id, start, end) ==
    {b \in bks : /\ b.item_id = item_id
                 /\ b.start_time <= end
                 /\ b.end_time >= start}

\* Mutant: the query is run and its result dropped, the "if overlapping:
\* raise" left out.
check_if_item_available_no_raise(item_id, start, end, bks) ==
    IF Overlapping(bks, item_id, start, end) # {} THEN 200 ELSE 200

\* check_if_item_available: 409 when the query returns a row, else passes.
check_if_item_available(item_id, start, end, bks) ==
    IF Overlapping(bks, item_id, start, end) # {} THEN 409 ELSE 200

---------------------------------------------------------------------------
(* The request last handled and its response *)

Response(op, status, actor, id, body, item) ==
    [op |-> op, status |-> status, actor |-> actor, id |-> id,
     body |-> body, item |-> item]

\* The response of a gated route whose get_current_user dependency raised:
\* the handler is never entered, so the path and the body are not read.
Unauthenticated(op, status) ==
    Response(op, status, 0, 0, NoBooking, NoItem)

Init ==
    /\ users = {}
    /\ next_user_id = 1
    /\ inventory = {}
    /\ next_item_id = 1
    /\ bookings = {}
    /\ next_booking_id = 1
    /\ resp = Response("startup", 200, 0, 0, NoBooking, NoItem)
    /\ sessions = [w \in Workers |-> NoRequest]

---------------------------------------------------------------------------
(* Users *)

\* POST /register: 400 when the username is taken, else the row is added
\* with the next id of the sequence.
register_user ==
    \E user \in UserBodies :
        LET existing_user == get_user_by_username(users, user.username) IN
        /\ existing_user = NoUser => next_user_id <= MaxUserId
        /\ IF existing_user # NoUser
           THEN /\ UNCHANGED <<users, next_user_id>>
                /\ resp' = Response("register_user", 400, 0, 0, NoBooking, NoItem)
           ELSE /\ users' = users \cup
                        {User(next_user_id, user.username, user.email,
                              get_password_hash(user.password))}
                /\ next_user_id' = next_user_id + 1
                /\ resp' = Response("register_user", 200, 0, next_user_id,
                                    NoBooking, NoItem)
        /\ UNCHANGED <<inventory, next_item_id, bookings, next_booking_id,
                       sessions>>

---------------------------------------------------------------------------
(* Inventory routes *)

\* The status of PUT and DELETE /inventory/{id} for an authenticated user:
\* is_admin, then session.get.
item_by_id_status(current_user, id, inv) ==
    IF AdminGate(current_user) # 200 THEN AdminGate(current_user)
    ELSE IF GetItem(inv, id) = {} THEN 404
    ELSE 200

\* POST /inventory
create_item ==
    \E token \in Tokens :
        LET auth == get_current_user(token, users) IN
        /\ IF auth.status # 200
           THEN /\ UNCHANGED <<inventory, next_item_id>>
                /\ resp' = Unauthenticated("create_item", auth.status)
           ELSE LET status == AdminGate(auth.user) IN
                /\ status = 200 => next_item_id <= MaxItemId
                /\ IF status # 200
                   THEN /\ UNCHANGED <<inventory, next_item_id>>
                        /\ resp' = Response("create_item", status,
                                            auth.user.id, 0, NoBooking, NoItem)
                   ELSE \E item \in ItemBodies :
                        /\ inventory' = inventory
                                \cup {Inventory(next_item_id, item)}
                        /\ next_item_id' = next_item_id + 1
                        /\ resp' = Response("create_item", 200, auth.user.id,
                                            next_item_id, NoBooking, item)
        /\ UNCHANGED <<users, next_user_id, bookings, next_booking_id,
                       sessions>>

\* PUT /inventory/{id}
update_item ==
    \E token \in Tokens :
        LET auth == get_current_user(token, users) IN
        /\ IF auth.status # 200
           THEN /\ UNCHANGED inventory
                /\ resp' = Unauthenticated("update_item", auth.status)
           ELSE \E id \in 1..MaxItemId :
                LET status == item_by_id_status(auth.user, id, inventory) IN
                IF status # 200
                THEN /\ UNCHANGED inventory
                     /\ resp' = Response("update_item", status, auth.user.id,
                                         id, NoBooking, NoItem)
                ELSE \E updated_item \in ItemBodies :
                     /\ inventory' = (inventory \ GetItem(inventory, id))
                                      \cup {Inventory(id, updated_item)}
                     /\ resp' = Response("update_item", 200, auth.user.id,
                                         id, NoBooking, updated_item)
        /\ UNCHANGED <<users, next_user_id, next_item_id, bookings,
                       next_booking_id,
                       sessions>>

\* DELETE /inventory/{id}
delete_item ==
    \E token \in Tokens :
        LET auth == get_current_user(token, users) IN
        /\ IF auth.status # 200
           THEN /\ UNCHANGED inventory
                /\ resp' = Unauthenticated("delete_item", auth.status)
           ELSE \E id \in 1..MaxItemId :
                LET status == item_by_id_status(auth.user, id, inventory) IN
                /\ IF status = 200
                   THEN inventory' = inventory \ GetItem(inventory, id)
                   ELSE UNCHANGED inventory
                /\ resp' = Response("delete_item", status, auth.user.id, id,
                                    NoBooking, NoItem)
        /\ UNCHANGED <<users, next_user_id, next_item_id, bookings,
                       next_booking_id,
                       sessions>>

\* GET /inventory: get_current_user, then a read.
list_items ==
    \E token \in Tokens :
        LET auth == get_current_user(token, users) IN
        /\ resp' = Response("list_items", auth.status, auth.user.id, 0,
                            NoBooking, NoItem)
        /\ UNCHANGED <<users, next_user_id, inventory, next_item_id,
                       bookings, next_booking_id,
                       sessions>>

---------------------------------------------------------------------------
(* Booking routes *)

\* The status of POST /bookings for an authenticated user:
\* check_if_item_available on the body's item and interval.
create_booking_status(booking, bks) ==
    check_if_item_available(booking.item_id, booking.start_time,
                            booking.end_time, bks)

\* The status PUT /bookings/{id} reaches its body with, for an authenticated
\* user: session.get, then the owner-or-admin check.
update_booking_status(current_user, id, bks) ==
    IF GetBooking(bks, id) = {} THEN 404
    ELSE OwnerOrAdminGate(CHOOSE b \in GetBooking(bks, id) : TRUE,
                          current_user)

\* Mutant: the owner-or-admin check made before the row is looked up, a
\* missing row counting as someone else's.
delete_booking_status_gate_first(current_user, id, bks) ==
    IF GetBooking(bks, id) = {} THEN AdminGate(current_user)
    ELSE OwnerOrAdminGate(CHOOSE b \in GetBooking(bks, id) : TRUE,
                          current_user)

\* The status of DELETE /bookings/{id} for an authenticated user:
\* session.get, then the owner-or-admin check.
delete_booking_status(current_user, id, bks) ==
    IF GetBooking(bks, id) = {} THEN 404
    ELSE OwnerOrAdminGate(CHOOSE b \in GetBooking(bks, id) : TRUE,
                          current_user)

\* Mutant: the handler calls check_if_item_available on the new values, as
\* create_booking does, the row being updated included in the scan.
update_booking_rechecked(id, updated_booking, bks) ==
    check_if_item_available(updated_booking.item_id,
                            updated_booking.start_time,
                            updated_booking.end_time, bks)

\* The status of the rest of PUT /bookings/{id}, from the first read of the
\* body to the return: the setattr loop, the commit and the refresh.  The
\* handler makes no call of check_if_item_available, so nothing here fails.
update_booking_commit_status(id, updated_booking, bks) == 200

\* session.add(Booking(**booking.model_dump())); session.commit()
InsertBooking(bks, id, booking) == bks \cup {Booking(id, booking)}

\* setattr(db_booking, key, value) for each of the body's four fields;
\* session.commit()
SetBooking(bks, id, updated_booking) ==
    (bks \ GetBooking(bks, id)) \cup {Booking(id, updated_booking)}

\* Mutant: the delete takes every booking of the row's item with it.
RemoveBookingWithItem(bks, id) ==
    {b \in bks : \A d \in GetBooking(bks, id) : b.item_id # d.item_id}

\* Mutant: the delete never committed.
RemoveBookingUncommitted(bks, id) == bks

\* session.delete(db_booking); session.commit()
RemoveBooking(bks, id) == bks \ GetBooking(bks, id)

\* The row session.get(Booking, id) returns, as a body; NoBooking for None
StoredBody(bks, id) ==
    IF GetBooking(bks, id) = {} THEN NoBooking
    ELSE BodyOf(CHOOSE b \in GetBooking(bks, id) : TRUE)

\* POST /bookings
create_booking ==
    \E token \in Tokens :
        LET auth == get_current_user(token, users) IN
        /\ IF auth.status # 200
           THEN /\ UNCHANGED <<bookings, next_booking_id>>
                /\ resp' = Unauthenticated("create_booking", auth.status)
           ELSE \E booking \in BookingBodies :
                LET status == create_booking_status(booking, bookings) IN
                /\ status = 200 => next_booking_id <= MaxBookingId
                /\ IF status = 200
                   THEN /\ bookings' = InsertBooking(bookings,
                                            next_booking_id, booking)
                        /\ next_booking_id' = next_booking_id + 1
                        /\ resp' = Response("create_booking", 200,
                                            auth.user.id, next_booking_id,
                                            booking, NoItem)
                   ELSE /\ UNCHANGED <<bookings, next_booking_id>>
                        /\ resp' = Response("create_booking", status,
                                            auth.user.id, 0, booking, NoItem)
        /\ UNCHANGED <<users, next_user_id, inventory, next_item_id,
                       sessions>>

\* PUT /bookings/{id}
update_booking ==
    \E token \in Tokens :
        LET auth == get_current_user(token, users) IN
        /\ IF auth.status # 200
           THEN /\ UNCHANGED bookings
                /\ resp' = Unauthenticated("update_booking", auth.status)
           ELSE \E id \in 1..MaxBookingId :
                LET status == update_booking_status(auth.user, id, bookings) IN
                IF status # 200
                THEN /\ UNCHANGED bookings
                     /\ resp' = Response("update_booking", status,
                                         auth.user.id, id, NoBooking, NoItem)
                ELSE \E updated_booking \in BookingBodies :
                     LET done == update_booking_commit_status(id,
                                     updated_booking, bookings) IN
                     /\ IF done = 200
                        THEN bookings' = SetBooking(bookings, id,
                                                    updated_booking)
                        ELSE UNCHANGED bookings
                     /\ resp' = Response("update_booking", done,
                                         auth.user.id, id, updated_booking,
                                         NoItem)
        /\ UNCHANGED <<users, next_user_id, inventory, next_item_id,
                       next_booking_id,
                       sessions>>

\* DELETE /bookings/{id}.  The response records the row session.get returned.
delete_booking ==
    \E token \in Tokens :
        LET auth == get_current_user(token, users) IN
        /\ IF auth.status # 200
           THEN /\ UNCHANGED bookings
                /\ resp' = Unauthenticated("delete_booking", auth.status)
           ELSE \E id \in 1..MaxBookingId :
                LET status == delete_booking_status(auth.user, id, bookings) IN
                /\ IF status = 200
                   THEN bookings' = RemoveBooking(bookings, id)
                   ELSE UNCHANGED bookings
                /\ resp' = Response("delete_booking", status, auth.user.id,
                                    id, StoredBody(bookings, id), NoItem)
        /\ UNCHANGED <<users, next_user_id, inventory, next_item_id,
                       next_booking_id,
                       sessions>>

\* GET /bookings: get_current_user, then a read.
list_bookings ==
    \E token \in Tokens :
        LET auth == get_current_user(token, users) IN
        /\ resp' = Response("list_bookings", auth.status, auth.user.id, 0,
                            NoBooking, NoItem)
        /\ UNCHANGED <<users, next_user_id, inventory, next_item_id,
                       bookings, next_booking_id,
                       sessions>>

---------------------------------------------------------------------------

Next ==
    \/ register_user
    \/ create_item
    \/ update_item
    \/ delete_item
    \/ list_items
    \/ create_booking
    \/ update_booking
    \/ delete_booking
    \/ list_bookings

Spec == Init /\ [][Next]_vars

---------------------------------------------------------------------------
(* Requests handled at the same time.  The handlers are plain def          *)
(* functions, which the server runs on a pool of threads; each request     *)
(* gets a Session of its own from get_session, no handler takes a lock or  *)
(* raises the isolation level, and no table declares a unique or an        *)
(* exclusion constraint.  A handler's SELECT therefore sees the rows        *)
(* committed so far, and its INSERT is flushed by its session.commit().    *)

\* Requests of handler op that are past their query and before their commit
InFlight(op) == {w \in Workers : sessions[w].op = op}

\* POST /register, up to the "if existing_user: raise": the SELECT.
register_user_query(w) ==
    /\ sessions[w] = NoRequest
    /\ \E user \in UserBodies :
        LET existing_user == get_user_by_username(users, user.username) IN
        /\ existing_user = NoUser =>
                next_user_id + Cardinality(InFlight("register_user"))
                    <= MaxUserId
        /\ IF existing_user # NoUser
           THEN /\ UNCHANGED sessions
                /\ resp' = Response("register_user", 400, 0, 0, NoBooking,
                                    NoItem)
           ELSE /\ sessions' = [sessions EXCEPT
                                    ![w] = Request("register_user", NoBooking,
                                                   user)]
                /\ UNCHANGED resp
    /\ UNCHANGED <<users, next_user_id, inventory, next_item_id, bookings,
                   next_booking_id>>

\* POST /register, from get_password_hash on: session.add, session.commit.
register_user_commit(w) ==
    /\ sessions[w].op = "register_user"
    /\ LET user == sessions[w].user IN
       /\ users' = users \cup
                {User(next_user_id, user.username, user.email,
                      get_password_hash(user.password))}
       /\ next_user_id' = next_user_id + 1
       /\ resp' = Response("register_user", 200, 0, next_user_id, NoBooking,
                           NoItem)
    /\ sessions' = [sessions EXCEPT ![w] = NoRequest]
    /\ UNCHANGED <<inventory, next_item_id, bookings, next_booking_id>>

\* POST /bookings, up to the return of check_if_item_available: the
\* get_current_user dependency and the SELECT of the overlapping rows.
create_booking_query(w) ==
    /\ sessions[w] = NoRequest
    /\ \E token \in Tokens :
        LET auth == get_current_user(token, users) IN
        IF auth.status # 200
        THEN /\ UNCHANGED sessions
             /\ resp' = Unauthenticated("create_booking", auth.status)
        ELSE \E booking \in BookingBodies :
             LET status == create_booking_status(booking, bookings) IN
             /\ status = 200 =>
                    next_booking_id + Cardinality(InFlight("create_booking"))
                        <= MaxBookingId
             /\ IF status = 200
                THEN /\ sessions' = [sessions EXCEPT
                                        ![w] = Request("create_booking",
                                                       booking, NoUserBody)]
                     /\ UNCHANGED resp
                ELSE /\ UNCHANGED sessions
                     /\ resp' = Response("create_booking", status,
                                         auth.user.id, 0, booking, NoItem)
    /\ UNCHANGED <<users, next_user_id, inventory, next_item_id, bookings,
                   next_booking_id>>

\* POST /bookings, from Booking(**booking.model_dump()) on: session.add,
\* session.commit.  The handler takes no current_user, so the response
\* records no actor.
create_booking_commit(w) ==
    /\ sessions[w].op = "create_booking"
    /\ LET booking == sessions[w].booking IN
       /\ bookings' = InsertBooking(bookings, next_booking_id, booking)
       /\ next_booking_id' = next_booking_id + 1
       /\ resp' = Response("create_booking", 200, 0, next_booking_id,
                           booking, NoItem)
    /\ sessions' = [sessions EXCEPT ![w] = NoRequest]
    /\ UNCHANGED <<users, next_user_id, inventory, next_item_id>>

ConcNext ==
    \/ \E w \in Workers : register_user_query(w)
    \/ \E w \in Workers : register_user_commit(w)
    \/ \E w \in Workers : create_booking_query(w)
    \/ \E w \in Workers : create_booking_commit(w)

ConcSpec == Init /\ [][ConcNext]_vars

---------------------------------------------------------------------------
(* Vocabulary of the properties *)

\* The overlap predicate of the specification (inclusive boundaries), on two
\* records with start_time and end_time
Overlap(b1, b2) ==
    b1.start_time <= b2.end_time /\ b1.end_time >= b2.start_time

\* The persisted bookings other than row id that share the body's item and
\* overlap its interval
Conflicts(bks, id, body) ==
    {b \in bks : b.id # id /\ b.item_id = body.item_id /\ Overlap(b, body)}

BookingIds(bks) == {b.id : b \in bks}

\* The stored user with that id (the actor of a response)
Actor(id) == CHOOSE u \in users : u.id = id

\* The actor's admin flag is absent or not true
NotAdmin(u) == "is_admin" \notin DOMAIN u \/ u["is_admin"] # TRUE

TablesUnchanged ==
    UNCHANGED <<users, next_user_id, inventory, next_item_id,
                bookings, next_booking_id>>

---------------------------------------------------------------------------
(* C1..C5: availability *)

\* C1: in every reachable state no two distinct persisted bookings of the
\* same item have overlapping intervals (inclusive boundaries).
C1_NoOverlap ==
    \A b1 \in bookings : \A b2 \in bookings :
        (b1 # b2 /\ b1.item_id = b2.item_id) => ~Overlap(b1, b2)

\* C2: a create_booking request of an authenticated actor is answered 409,
\* and persists nothing, whenever a persisted booking of the same item
\* overlaps the proposed interval, a shared end point included.
C2_CreateConflictRejected ==
    [][(/\ resp'.op = "create_booking"
        /\ resp'.actor # 0
        /\ Conflicts(bookings, 0, resp'.body) # {})
       => (resp'.status = 409 /\ TablesUnchanged)]_vars

\* A create_booking was answered 409 for an interval that starts exactly
\* where a persisted booking of the item ends, and shares nothing else
\* with it.
C2_Witness ==
    /\ resp.op = "create_booking"
    /\ resp.actor # 0
    /\ resp.status = 409
    /\ \E b \in bookings :
        /\ b.item_id = resp.body.item_id
        /\ b.end_time = resp.body.start_time
        /\ b.start_time < resp.body.start_time
        /\ Conflicts(bookings, 0, resp.body) = {b}

\* C3: a create_booking request of an authenticated actor whose interval
\* overlaps no persisted booking of the same item is answered 200 and adds
\* exactly one row, the body under an id no persisted booking has; bookings
\* of other items play no part.
C3_CreateAvailableAccepted ==
    [][(/\ resp'.op = "create_booking"
        /\ resp'.actor # 0
        /\ Conflicts(bookings, 0, resp'.body) = {})
       => (/\ resp'.status = 200
           /\ resp'.id \notin BookingIds(bookings)
           /\ bookings' = bookings \cup {Booking(resp'.id, resp'.body)}
           /\ Cardinality(bookings') = Cardinality(bookings) + 1)]_vars

\* A create_booking was accepted next to a persisted booking of the same
\* item that ends before it starts.
C3_Witness ==
    /\ resp.op = "create_booking"
    /\ resp.actor # 0
    /\ resp.status = 200
    /\ Booking(resp.id, resp.body) \in bookings
    /\ \E b \in bookings :
        /\ b.id # resp.id
        /\ b.item_id = resp.body.item_id
        /\ b.start_time <= b.end_time
        /\ b.end_time < resp.body.start_time
        /\ resp.body.start_time <= resp.body.end_time

\* C4: an update_booking request of the owner or an admin whose new item and
\* interval overlap another persisted booking is answered 409 and leaves the
\* stored booking as it was.
C4_UpdateRechecksAvailability ==
    [][(/\ resp'.op = "update_booking"
        /\ resp'.actor # 0
        /\ resp'.id \in BookingIds(bookings)
        /\ resp'.body # NoBooking
        /\ Conflicts(bookings, resp'.id, resp'.body) # {})
       => (resp'.status = 409 /\ bookings' = bookings)]_vars

\* C5: an update_booking request of a persisted booking's owner is never
\* turned away before its body is read, and one that resubmits the stored
\* item_id, start_time and end_time (and user_id) is answered 200 and leaves
\* the row as it was.
C5_SelfUpdateSucceeds ==
    [][(/\ resp'.op = "update_booking"
        /\ resp'.actor # 0
        /\ \E b \in bookings : b.id = resp'.id /\ b.user_id = resp'.actor)
       => (/\ resp'.status \notin {401, 403, 404, 500}
           /\ resp'.body = StoredBody(bookings, resp'.id)
                => (resp'.status = 200 /\ bookings' = bookings))]_vars

\* An owner resubmitted the stored values of a booking while the other
\* persisted booking did not overlap it, and got 200.
C5_Witness ==
    /\ resp.op = "update_booking"
    /\ resp.status = 200
    /\ resp.body = StoredBody(bookings, resp.id)
    /\ resp.actor = resp.body.user_id
    /\ Cardinality(bookings) = 2
    /\ C1_NoOverlap

---------------------------------------------------------------------------
(* C6..C9: access control *)

\* C6: update_booking and delete_booking of a persisted booking by an
\* authenticated actor who is neither its owner nor an admin are answered
\* Forbidden (401 or 403), and the bookings stay as they were.
C6_NonOwnerForbidden ==
    [][(/\ resp'.op \in {"update_booking", "delete_booking"}
        /\ resp'.actor # 0
        /\ \E b \in bookings : b.id = resp'.id /\ b.user_id # resp'.actor
        /\ NotAdmin(Actor(resp'.actor)))
       => (resp'.status \in {401, 403} /\ bookings' = bookings)]_vars

\* C7: for a persisted booking and a stored user other than its owner, the
\* user carries the admin flag the owner-or-admin check reads, and with the
\* flag set the user passes that check, the delete then removing the row.
C7_AdminCanDeleteAny ==
    \A b \in bookings : \A u \in users :
        u.id # b.user_id =>
            /\ "is_admin" \in DOMAIN u
            /\ u["is_admin"] = TRUE =>
                /\ delete_booking_status(u, b.id, bookings) = 200
                /\ b \notin RemoveBooking(bookings, b.id)

\* C8: create_item, update_item and delete_item of an authenticated actor
\* whose admin flag is absent or false never get past the admin check (no
\* 200 and no 404 of the lookup behind it), and the inventory and its id
\* sequence stay as they were.
C8_NonAdminInventoryDenied ==
    [][(/\ resp'.op \in {"create_item", "update_item", "delete_item"}
        /\ resp'.actor # 0
        /\ NotAdmin(Actor(resp'.actor)))
       => (/\ resp'.status \in {401, 403, 500}
           /\ inventory' = inventory
           /\ next_item_id' = next_item_id)]_vars

\* A stored user without the admin flag asked to create an item and was
\* turned away.
C8_Witness ==
    /\ resp.op = "create_item"
    /\ resp.actor # 0
    /\ "is_admin" \notin DOMAIN Actor(resp.actor)
    /\ resp.status \in {401, 403, 500}
    /\ inventory = {}

GatedOps ==
    {"list_items", "create_item", "update_item", "delete_item",
     "list_bookings", "create_booking", "update_booking", "delete_booking"}

\* No token, a token that does not verify, or a token whose subject is no
\* stored username
Anonymous(token, usrs) ==
    token.kind # "valid" \/ token.sub \notin {u.username : u \in usrs}

\* C9: every anonymous credential is refused by get_current_user with 401,
\* and a gated route that ran without an authenticated user answers 401 and
\* leaves users, inventory and bookings as they were.
C9_AnonymousUnauthenticated ==
    [][/\ \A token \in Tokens :
            Anonymous(token, users)
                => get_current_user(token, users).status = 401
       /\ (resp'.op \in GatedOps /\ resp'.actor = 0)
            => (resp'.status = 401 /\ TablesUnchanged)]_vars

\* An anonymous delete_booking was answered 401 while bookings were stored
\* and one of the usernames a token can carry was not registered.
C9_Witness ==
    /\ resp.op = "delete_booking"
    /\ resp.actor = 0
    /\ resp.status = 401
    /\ bookings # {}
    /\ \E s \in Usernames : get_user_by_username(users, s) = NoUser

---------------------------------------------------------------------------
(* C10: a deleted booking frees its slot *)

\* C10: when the request handled just after a booking's owner deleted it is
\* a create_booking of an authenticated actor for the same item and an
\* interval that overlaps the deleted booking and no other persisted one,
\* that request is answered 200 and its booking is persisted.
C10_DeleteFreesSlot ==
    [][(/\ resp.op = "delete_booking"
        /\ resp.status = 200
        /\ resp.actor = resp.body.user_id
        /\ resp'.op = "create_booking"
        /\ resp'.actor # 0
        /\ resp'.body.item_id = resp.body.item_id
        /\ Overlap(resp.body, resp'.body)
        /\ Conflicts(bookings, resp.id, resp'.body) = {})
       => (/\ resp'.status = 200
           /\ Booking(resp'.id, resp'.body) \in bookings')]_vars

\* An owner has just deleted a booking, a second user is registered, and a
\* request that overlapped the deleted booking is now available.
C10_Witness ==
    /\ resp.op = "delete_booking"
    /\ resp.status = 200
    /\ resp.actor = resp.body.user_id
    /\ resp.id \notin BookingIds(bookings)
    /\ \E v \in users : v.id # resp.actor
    /\ next_booking_id <= MaxBookingId
    /\ \E body \in BookingBodies :
        /\ body.item_id = resp.body.item_id
        /\ Overlap(resp.body, body)
        /\ create_booking_status(body, bookings) = 200

---------------------------------------------------------------------------
(* C11: the availability read and the insert under concurrency *)

\* C11: under ConcSpec, the query of a create_booking request and its
\* insert act as one step: a booking is persisted only when no persisted
\* booking of its item overlaps it at the moment of the insert, so of two
\* requests for overlapping intervals of one item that run at the same time
\* at most one is accepted.
C11_CheckAndInsertAtomic ==
    [][\A w \in Workers :
        (/\ sessions[w].op = "create_booking"
         /\ sessions'[w] = NoRequest
         /\ bookings' # bookings)
        => Conflicts(bookings, 0, sessions[w].booking) = {}]_vars

---------------------------------------------------------------------------
(* C12..C19: frame conditions, inventory, integrity *)

\* C12: a delete_booking request of a persisted booking's owner is answered
\* 200 whatever else is booked, removes exactly that row and leaves every
\* other booking and the id sequence as they were.
C12_OwnerDeleteExact ==
    [][\A b \in bookings :
        (/\ resp'.op = "delete_booking"
         /\ resp'.actor # 0
         /\ resp'.id = b.id
         /\ resp'.actor = b.user_id)
        => (/\ resp'.status = 200
            /\ bookings' = bookings \ {b}
            /\ next_booking_id' = next_booking_id)]_vars

\* An owner deleted a booking while another booking of the same item, which
\* overlapped it, was persisted; that one is still there.
C12_Witness ==
    /\ resp.op = "delete_booking"
    /\ resp.status = 200
    /\ resp.actor = resp.body.user_id
    /\ resp.id \notin BookingIds(bookings)
    /\ \E b \in bookings :
        /\ b.item_id = resp.body.item_id
        /\ Overlap(b, resp.body)

\* C13: every stored user carries the admin flag that create_item,
\* update_item and delete_item read, and a user whose flag is set passes
\* their admin check, so that create_item persists the submitted item
\* under the next id and update_item and delete_item find it.
C13_AdminCanManageInventory ==
    \A u \in users :
        /\ "is_admin" \in DOMAIN u
        /\ u["is_admin"] = TRUE =>
            /\ AdminGate(u) = 200
            /\ \A i \in inventory : item_by_id_status(u, i.id, inventory) = 200

\* C14: a create_booking request that is turned away, which is what happens
\* to every anonymous one (401) and every one that check_if_item_available
\* finds a conflict for (409), leaves the persisted bookings, ids and
\* fields, and the id sequence exactly as they were.
C14_RejectedCreateNotPersisted ==
    [][resp'.op = "create_booking" =>
        /\ (resp'.actor = 0 \/ Conflicts(bookings, 0, resp'.body) # {})
                => resp'.status \in {401, 409}
        /\ resp'.status # 200
                => (bookings' = bookings
                    /\ next_booking_id' = next_booking_id)]_vars

\* A create_booking was answered 409 with two bookings persisted and the id
\* sequence past them.
C14_Witness ==
    /\ resp.op = "create_booking"
    /\ resp.status = 409
    /\ Cardinality(bookings) = 2
    /\ next_booking_id = MaxBookingId + 1
    /\ Booking(next_booking_id, resp.body) \notin bookings

\* C15: in every reachable state each persisted booking's item_id is the id
\* of a persisted inventory item and its user_id the id of a persisted user.
C15_ReferentialIntegrity ==
    \A b \in bookings :
        /\ \E i \in inventory : i.id = b.item_id
        /\ \E u \in users : u.id = b.user_id

\* C16: every persisted booking ends after it starts.
C16_EndAfterStart ==
    \A b \in bookings : b.end_time > b.start_time

\* C17: update_booking and delete_booking of an authenticated actor on an id
\* that no persisted booking has, never created or already deleted, are
\* answered 404 whoever the actor is, and leave the bookings as they were.
C17_MissingBookingNotFound ==
    [][(/\ resp'.op \in {"update_booking", "delete_booking"}
        /\ resp'.actor # 0
        /\ resp'.id \notin BookingIds(bookings))
       => (/\ resp'.status = 404
           /\ bookings' = bookings
           /\ next_booking_id' = next_booking_id)]_vars

\* A delete_booking on an id the sequence has handed out, whose booking is
\* gone, was answered 404 while another user's booking was persisted.
C17_Witness ==
    /\ resp.op = "delete_booking"
    /\ resp.actor # 0
    /\ resp.status = 404
    /\ resp.id < next_booking_id
    /\ resp.id \notin BookingIds(bookings)
    /\ \E b \in bookings : b.user_id # resp.actor

\* C18: under ConcSpec, whatever the order in which the steps of
\* register_user requests are taken, no two persisted users share a
\* username.
C18_UsernamesUnique ==
    \A u1 \in users : \A u2 \in users :
        u1.username = u2.username => u1 = u2

\* C19: a create_booking request that persists a booking persists it under
\* the id of the authenticated actor who made the request, and no
\* update_booking request of a non-admin changes the user_id or the id of a
\* persisted booking.
C19_OwnershipBoundToCreator ==
    [][/\ (resp'.op = "create_booking" /\ resp'.status = 200)
            => resp'.body.user_id = resp'.actor
       /\ (/\ resp'.op = "update_booking"
           /\ resp'.actor # 0
           /\ NotAdmin(Actor(resp'.actor)))
            => \A b \in bookings : \E c \in bookings' :
                    c.id = b.id /\ c.user_id = b.user_id]_vars

====
